---- MODULE Spec2Model ----
(***************************************************************************)
(* Model of the QuadTree class of src/src/App.js (point insertion with     *)
(* subdivision, range query, cross-tree matching).                         *)
(*                                                                         *)
(* Coordinates are JavaScript numbers.  Bounds are halved at most `depth'  *)
(* times, so every coordinate is kept as an integer number of 1/2^8 pixel  *)
(* units (Px): all midpoints of a tree of depth <= 8 are then exact.       *)
(***************************************************************************)
EXTENDS Integers, Sequences, FiniteSets, TLC

\* constructor defaults: constructor(bounds, maxItems = 1, depth = 8)
DefaultMaxItems == 1
DefaultDepth == 8

\* bounds of the model
MaxInserts == 4

Px(v) == v * (2 ^ DefaultDepth)

Pt(px, py) == [x |-> Px(px), y |-> Px(py)]

Rect(l, t, r, b) == [left |-> Px(l), top |-> Px(t), right |-> Px(r), bottom |-> Px(b)]

\* const quadTreeBounds = { left: 0, top: 0, right: 600, bottom: 400 }
quadTreeBounds == Rect(0, 0, 600, 400)

\* points offered to insert: interior, shared-edge (centre), corner, outside
Points == { Pt(10, 10), Pt(100, 100), Pt(300, 200), Pt(600, 400), Pt(601, 400) }

\* query rectangles: the canvas, a quadrant-sized one, a zero-area one
Ranges == { Rect(0, 0, 600, 400), Rect(0, 0, 300, 200), Rect(10, 10, 10, 10) }

\* maxItems and depth arguments given to the constructor
MaxItemsArgs == { DefaultMaxItems, 2 }

Depths == { 1, 2, DefaultDepth }

VARIABLES treeA, treeB, logA, logB, last

\* state of the App component: the shared trees (useRef), the useState values,
\* whether a committed render has changed a dependency of the effect that has
\* not run yet, and what the effect's last run computed and drew
VARIABLES adminQuadTree, userQuadTree, adminPolygons, userPolygons,
          currentPolygon, isDrawing, uploadStage, image, effectPending, overlap

treeVars == <<treeA, treeB, logA, logB, last>>

appVars == <<adminQuadTree, userQuadTree, adminPolygons, userPolygons,
             currentPolygon, isDrawing, uploadStage, image, effectPending, overlap>>

vars == <<treeA, treeB, logA, logB, last,
          adminQuadTree, userQuadTree, adminPolygons, userPolygons,
          currentPolygon, isDrawing, uploadStage, image, effectPending, overlap>>

----------------------------------------------------------------------------
(* JavaScript property read: a missing property reads as undefined.  A     *)
(* value is the pair <<defined, number>>.                                  *)
Get(obj, f) == IF f \in DOMAIN obj THEN <<TRUE, obj[f]>> ELSE <<FALSE, 0>>

(* a >= b and a <= b on JavaScript values: undefined converts to NaN and   *)
(* every comparison with NaN is false.                                     *)
GE(a, b) == a[1] /\ b[1] /\ a[2] >= b[2]

LE(a, b) == a[1] /\ b[1] /\ a[2] <= b[2]

\* intersects without the test point.x <= bounds.right
intersectsNoRight(point, bounds) ==
    /\ GE(Get(point, "x"), Get(bounds, "left"))
    /\ GE(Get(point, "y"), Get(bounds, "top"))
    /\ LE(Get(point, "y"), Get(bounds, "bottom"))

\* const intersects = (point, bounds) => ...: reads point.x, point.y
intersects(point, bounds) ==
    /\ GE(Get(point, "x"), Get(bounds, "left"))
    /\ LE(Get(point, "x"), Get(bounds, "right"))
    /\ GE(Get(point, "y"), Get(bounds, "top"))
    /\ LE(Get(point, "y"), Get(bounds, "bottom"))

\* new QuadTree(bounds, maxItems, depth)
NewQuadTree(bounds, maxItems, depth) ==
    [bounds |-> bounds, maxItems |-> maxItems, depth |-> depth,
     points |-> <<>>, children |-> <<>>]

\* subdivide with the top-right child starting at left instead of midX
subdivideOverlap(n) ==
    IF Len(n.children) > 0 \/ n.depth = 0 THEN n
    ELSE LET left == n.bounds.left
             top == n.bounds.top
             right == n.bounds.right
             bottom == n.bounds.bottom
             midX == (left + right) \div 2
             midY == (top + bottom) \div 2
             kid(b) == NewQuadTree(b, n.maxItems, n.depth - 1)
         IN [n EXCEPT !.children = <<
                kid([left |-> left, top |-> top, right |-> midX, bottom |-> midY]),
                kid([left |-> left, top |-> top, right |-> right, bottom |-> midY]),
                kid([left |-> left, top |-> midY, right |-> midX, bottom |-> bottom]),
                kid([left |-> midX, top |-> midY, right |-> right, bottom |-> bottom]) >>]

\* subdivide with the children given depth instead of depth - 1
subdivideSameDepth(n) ==
    IF Len(n.children) > 0 \/ n.depth = 0 THEN n
    ELSE LET left == n.bounds.left
             top == n.bounds.top
             right == n.bounds.right
             bottom == n.bounds.bottom
             midX == (left + right) \div 2
             midY == (top + bottom) \div 2
             kid(b) == NewQuadTree(b, n.maxItems, n.depth)
         IN [n EXCEPT !.children = <<
                kid([left |-> left, top |-> top, right |-> midX, bottom |-> midY]),
                kid([left |-> midX, top |-> top, right |-> right, bottom |-> midY]),
                kid([left |-> left, top |-> midY, right |-> midX, bottom |-> bottom]),
                kid([left |-> midX, top |-> midY, right |-> right, bottom |-> bottom]) >>]

\* subdivide(): the node after the call
subdivide(n) ==
    IF Len(n.children) > 0 \/ n.depth = 0 THEN n
    ELSE LET left == n.bounds.left
             top == n.bounds.top
             right == n.bounds.right
             bottom == n.bounds.bottom
             midX == (left + right) \div 2
             midY == (top + bottom) \div 2
             kid(b) == NewQuadTree(b, n.maxItems, n.depth - 1)
         IN [n EXCEPT !.children = <<
                kid([left |-> left, top |-> top, right |-> midX, bottom |-> midY]),
                kid([left |-> midX, top |-> top, right |-> right, bottom |-> midY]),
                kid([left |-> left, top |-> midY, right |-> midX, bottom |-> bottom]),
                kid([left |-> midX, top |-> midY, right |-> right, bottom |-> bottom]) >>]

RECURSIVE insert(_, _), someInsert(_, _, _)

\* insert storing directly only while depth > 1 instead of depth > 0
insertDepthOffByOne(n, point) ==
    IF ~intersects(point, n.bounds) THEN [ret |-> FALSE, node |-> n]
    ELSE IF Len(n.points) < n.maxItems /\ n.depth > 1
         THEN [ret |-> TRUE, node |-> [n EXCEPT !.points = Append(@, point)]]
         ELSE LET n1 == IF Len(n.children) = 0 THEN subdivide(n) ELSE n
                  r == someInsert(n1.children, 1, point)
              IN [ret |-> r.ret, node |-> [n1 EXCEPT !.children = r.children]]

\* insert creating four fresh children on every delegation
insertResplit(n, point) ==
    IF ~intersects(point, n.bounds) THEN [ret |-> FALSE, node |-> n]
    ELSE IF Len(n.points) < n.maxItems /\ n.depth > 0
         THEN [ret |-> TRUE, node |-> [n EXCEPT !.points = Append(@, point)]]
         ELSE LET n1 == subdivide([n EXCEPT !.children = <<>>])
                  r == someInsert(n1.children, 1, point)
              IN [ret |-> r.ret, node |-> [n1 EXCEPT !.children = r.children]]

\* insert storing directly while points.length <= maxItems instead of <
insertOneTooMany(n, point) ==
    IF ~intersects(point, n.bounds) THEN [ret |-> FALSE, node |-> n]
    ELSE IF Len(n.points) <= n.maxItems /\ n.depth > 0
         THEN [ret |-> TRUE, node |-> [n EXCEPT !.points = Append(@, point)]]
         ELSE LET n1 == IF Len(n.children) = 0 THEN subdivide(n) ELSE n
                  r == someInsert(n1.children, 1, point)
              IN [ret |-> r.ret, node |-> [n1 EXCEPT !.children = r.children]]

\* insert(point): [ret |-> the returned boolean, node |-> the node after the call]
insert(n, point) ==
    IF ~intersects(point, n.bounds) THEN [ret |-> FALSE, node |-> n]
    ELSE IF Len(n.points) < n.maxItems /\ n.depth > 0
         THEN [ret |-> TRUE, node |-> [n EXCEPT !.points = Append(@, point)]]
         ELSE LET n1 == IF Len(n.children) = 0 THEN subdivide(n) ELSE n
                  r == someInsert(n1.children, 1, point)
              IN [ret |-> r.ret, node |-> [n1 EXCEPT !.children = r.children]]

RECURSIVE forEachInsert(_, _, _)

\* children.forEach in place of children.some: every child is offered the point
forEachInsert(children, i, point) ==
    IF i > Len(children) THEN [ret |-> FALSE, children |-> children]
    ELSE LET r == insert(children[i], point)
             rest == forEachInsert([children EXCEPT ![i] = r.node], i + 1, point)
         IN [ret |-> r.ret \/ rest.ret, children |-> rest.children]

\* this.children.some(child => child.insert(point)), from child i on:
\* stops at the first child whose insert returns true
someInsert(children, i, point) ==
    IF i > Len(children) THEN [ret |-> FALSE, children |-> children]
    ELSE LET r == insert(children[i], point)
             cs == [children EXCEPT ![i] = r.node]
         IN IF r.ret THEN [ret |-> TRUE, children |-> cs]
            ELSE someInsert(cs, i + 1, point)

\* queryRange without the early return on intersects(range, this.bounds)
RECURSIVE queryRangeNoPrune(_, _, _), queryKidsNoPrune(_, _, _, _)

queryKidsNoPrune(children, i, range, found) ==
    IF i > Len(children) THEN found
    ELSE queryKidsNoPrune(children, i + 1, range,
                          queryRangeNoPrune(children[i], range, found))

queryRangeNoPrune(n, range, found) ==
    queryKidsNoPrune(n.children, 1, range,
        found \o SelectSeq(n.points, LAMBDA p : intersects(p, range)))

RECURSIVE queryRange(_, _, _), queryChildren(_, _, _, _)

\* queryRange(range, found = []): the returned array
queryRange(n, range, found) ==
    IF ~intersects(range, n.bounds) THEN found
    ELSE queryChildren(n.children, 1, range,
            found \o SelectSeq(n.points, LAMBDA p : intersects(p, range)))

\* for (let child of this.children) child.queryRange(range, found), from child i on
queryChildren(children, i, range, found) ==
    IF i > Len(children) THEN found
    ELSE queryChildren(children, i + 1, range,
                       queryRange(children[i], range, found))

RECURSIVE findCommonPoints(_, _, _), findCommonChildren(_, _, _, _)

\* findCommonPoints(otherQuadTree, commonPoints = []): the returned array
findCommonPoints(n, otherQuadTree, commonPoints) ==
    IF ~intersects(n.bounds, otherQuadTree.bounds) THEN commonPoints
    ELSE findCommonChildren(n.children, 1, otherQuadTree,
            commonPoints \o SelectSeq(n.points, LAMBDA p :
                Len(queryRange(otherQuadTree,
                               [left |-> p.x, top |-> p.y, right |-> p.x, bottom |-> p.y],
                               <<>>)) > 0))

\* for (let child of this.children) child.findCommonPoints(otherQuadTree, commonPoints)
findCommonChildren(children, i, otherQuadTree, commonPoints) ==
    IF i > Len(children) THEN commonPoints
    ELSE findCommonChildren(children, i + 1, otherQuadTree,
                            findCommonPoints(children[i], otherQuadTree, commonPoints))

----------------------------------------------------------------------------
(* Two trees over the same bounds, built with the same constructor         *)
(* arguments.  logA and logB record every insert call on treeA and treeB   *)
(* with its returned value.  last is the most recent call: the method, the *)
(* receiver, the point or range argument (a sequence of length 0 or 1) and *)
(* what the call returned (ret for insert, foundA and foundB for           *)
(* queryRange on the two trees, common for findCommonPoints).              *)

Call(op, tree) ==
    [op |-> op, tree |-> tree, point |-> <<>>, range |-> <<>>, ret |-> FALSE,
     foundA |-> <<>>, foundB |-> <<>>, common |-> <<>>]

\* the App component after its first render and the first run of the effect
\* (no image, so no canvas: the effect returned at once and drew nothing)
AppMounted ==
    /\ adminQuadTree = NewQuadTree(quadTreeBounds, DefaultMaxItems, DefaultDepth)
    /\ userQuadTree = NewQuadTree(quadTreeBounds, DefaultMaxItems, DefaultDepth)
    /\ adminPolygons = <<>>
    /\ userPolygons = <<>>
    /\ currentPolygon = <<>>
    /\ isDrawing = FALSE
    /\ uploadStage = "admin"
    /\ image = "null"
    /\ effectPending = FALSE
    /\ overlap = [drawn |-> FALSE,
                  receiver |-> NewQuadTree(quadTreeBounds, DefaultMaxItems, DefaultDepth),
                  argument |-> NewQuadTree(quadTreeBounds, DefaultMaxItems, DefaultDepth),
                  commonPoints |-> <<>>]

Init ==
    \E m \in MaxItemsArgs, d \in Depths :
        /\ treeA = NewQuadTree(quadTreeBounds, m, d)
        /\ treeB = NewQuadTree(quadTreeBounds, m, d)
        /\ logA = <<>>
        /\ logB = <<>>
        /\ last = Call("new", "")
        /\ AppMounted

\* treeA.insert(p)
InsertA(p) ==
    /\ Len(logA) + Len(logB) < MaxInserts
    /\ LET r == insert(treeA, p)
       IN /\ treeA' = r.node
          /\ logA' = Append(logA, [point |-> p, ret |-> r.ret])
          /\ last' = [Call("insert", "A") EXCEPT !.point = <<p>>, !.ret = r.ret]
    /\ UNCHANGED <<treeB, logB>>
    /\ UNCHANGED appVars

\* treeB.insert(p)
InsertB(p) ==
    /\ Len(logA) + Len(logB) < MaxInserts
    /\ LET r == insert(treeB, p)
       IN /\ treeB' = r.node
          /\ logB' = Append(logB, [point |-> p, ret |-> r.ret])
          /\ last' = [Call("insert", "B") EXCEPT !.point = <<p>>, !.ret = r.ret]
    /\ UNCHANGED <<treeA, logA>>
    /\ UNCHANGED appVars

\* treeA.queryRange(R) and treeB.queryRange(R)
QueryRange(R) ==
    /\ last' = [Call("queryRange", "AB") EXCEPT
                    !.range = <<R>>,
                    !.foundA = queryRange(treeA, R, <<>>),
                    !.foundB = queryRange(treeB, R, <<>>)]
    /\ UNCHANGED <<treeA, treeB, logA, logB>>
    /\ UNCHANGED appVars

\* treeA.findCommonPoints(treeB)
FindCommonPoints ==
    /\ last' = [Call("findCommonPoints", "A") EXCEPT
                    !.common = findCommonPoints(treeA, treeB, <<>>)]
    /\ UNCHANGED <<treeA, treeB, logA, logB>>
    /\ UNCHANGED appVars

Next ==
    \/ \E p \in Points : InsertA(p)
    \/ \E p \in Points : InsertB(p)
    \/ \E R \in Ranges : QueryRange(R)
    \/ FindCommonPoints

Spec == Init /\ [][Next]_vars

----------------------------------------------------------------------------
(* The App component.  Display state that no operation on the trees or the *)
(* polygon lists reads (colours, the selected polygon) is left out.        *)
(*                                                                         *)
(* React runs a handler to completion, commits the render and runs the     *)
(* effect whose dependencies changed before it handles the next event, so  *)
(* every handler waits for a pending effect.                               *)

\* bounds of the model: clicks in one drawing session, polygons finalized
MaxClicks == 3
MaxPolygons == 2

\* canvas positions clicked: the corners of a 6-8-10 triangle, so that every edge
\* has an interior interpolated point and every coordinate is an exact number
Clicks == { Pt(10, 10), Pt(16, 10), Pt(16, 18) }

\* Math.ceil(distance / 5)
InterpolationStep == 5

\* if (currentPolygon.length < 3) return
MinVertices == 3

\* the point { x: NaN, y: NaN }: every comparison with a coordinate of it is false
NaNPoint == [nan |-> TRUE]

Abs(v) == IF v < 0 THEN -v ELSE v

\* steps = Math.ceil(Math.sqrt(dx ** 2 + dy ** 2) / 5): the least n with (5n)^2 >= dx^2 + dy^2
interpolateSteps(start, end) ==
    LET dx == end.x - start.x
        dy == end.y - start.y
        unit == Px(InterpolationStep)
    IN CHOOSE n \in 0..((Abs(dx) + Abs(dy)) \div unit + 1) :
          /\ (n * unit) * (n * unit) >= dx * dx + dy * dy
          /\ n = 0 \/ ((n - 1) * unit) * ((n - 1) * unit) < dx * dx + dy * dy

\* interpolatePoints(start, end): with steps = 0 the step is 0 / 0 = NaN and the
\* only point pushed is { x: NaN, y: NaN }
interpolatePoints(start, end) ==
    LET steps == interpolateSteps(start, end)
    IN IF steps = 0 THEN <<NaNPoint>>
       ELSE LET stepX == (end.x - start.x) \div steps
                stepY == (end.y - start.y) \div steps
            IN [k \in 1..(steps + 1) |->
                   [x |-> start.x + stepX * (k - 1), y |-> start.y + stepY * (k - 1)]]

RECURSIVE interpolateEdges(_, _)

\* for (i = 0; i < length - 1; i++) allPoints.push(...interpolatePoints(p[i], p[i + 1])),
\* from edge i on, then the closing edge from the last vertex to the first
interpolateEdges(polygon, i) ==
    IF i >= Len(polygon)
    THEN interpolatePoints(polygon[Len(polygon)], polygon[1])
    ELSE interpolatePoints(polygon[i], polygon[i + 1]) \o interpolateEdges(polygon, i + 1)

RECURSIVE insertEach(_, _, _)

\* allPoints.forEach(point => tree.insert(point)): the tree after the first k points
insertEach(tree, allPoints, k) ==
    IF k = 0 THEN tree
    ELSE insert(insertEach(tree, allPoints, k - 1), allPoints[k]).node

\* newPolygon of handleEndPolygon, its own tree filled
newPolygon(allPoints, stage) ==
    [points |-> allPoints,
     type |-> stage,
     quadTree |-> insertEach(NewQuadTree(quadTreeBounds, DefaultMaxItems, DefaultDepth),
                             allPoints, Len(allPoints))]

\* reader.onloadend: setImage(reader.result); result is null when the read failed.
\* The canvas is rendered only while image is set.
handleImageUpload(result) ==
    /\ ~effectPending
    /\ image' = result
    /\ UNCHANGED <<adminQuadTree, userQuadTree, adminPolygons, userPolygons,
                   currentPolygon, isDrawing, uploadStage, effectPending, overlap>>
    /\ UNCHANGED treeVars

\* handleStartPolygon
handleStartPolygon ==
    /\ ~effectPending
    /\ isDrawing' = TRUE
    /\ currentPolygon' = <<>>
    /\ effectPending' = TRUE
    /\ UNCHANGED <<adminQuadTree, userQuadTree, adminPolygons, userPolygons,
                   uploadStage, image, overlap>>
    /\ UNCHANGED treeVars

\* handleCanvasClick: a click on the canvas, which exists only with an image
handleCanvasClick(p) ==
    /\ ~effectPending
    /\ image # "null"
    /\ Len(currentPolygon) < MaxClicks
    /\ IF ~isDrawing
       THEN UNCHANGED <<currentPolygon, effectPending>>
       ELSE /\ currentPolygon' = Append(currentPolygon, p)
            /\ effectPending' = TRUE
    /\ UNCHANGED <<adminQuadTree, userQuadTree, adminPolygons, userPolygons,
                   isDrawing, uploadStage, image, overlap>>
    /\ UNCHANGED treeVars

\* handleEndPolygon with the else branch inserting into both shared trees
handleEndPolygonBothTrees ==
    /\ ~effectPending
    /\ isDrawing' = FALSE
    /\ IF Len(currentPolygon) < MinVertices
       THEN UNCHANGED <<adminQuadTree, userQuadTree, adminPolygons, userPolygons,
                        currentPolygon, effectPending>>
       ELSE /\ Len(adminPolygons) + Len(userPolygons) < MaxPolygons
            /\ LET allPoints == interpolateEdges(currentPolygon, 1)
               IN IF uploadStage = "admin"
                  THEN /\ adminPolygons' = Append(adminPolygons, newPolygon(allPoints, uploadStage))
                       /\ adminQuadTree' = insertEach(adminQuadTree, allPoints, Len(allPoints))
                       /\ UNCHANGED <<userPolygons, userQuadTree>>
                  ELSE /\ userPolygons' = Append(userPolygons, newPolygon(allPoints, uploadStage))
                       /\ userQuadTree' = insertEach(userQuadTree, allPoints, Len(allPoints))
                       /\ adminQuadTree' = insertEach(adminQuadTree, allPoints, Len(allPoints))
                       /\ UNCHANGED adminPolygons
            /\ currentPolygon' = <<>>
            /\ effectPending' = TRUE
    /\ UNCHANGED <<uploadStage, image, overlap>>
    /\ UNCHANGED treeVars

\* handleEndPolygon
handleEndPolygon ==
    /\ ~effectPending
    /\ isDrawing' = FALSE
    /\ IF Len(currentPolygon) < MinVertices
       THEN UNCHANGED <<adminQuadTree, userQuadTree, adminPolygons, userPolygons,
                        currentPolygon, effectPending>>
       ELSE /\ Len(adminPolygons) + Len(userPolygons) < MaxPolygons
            /\ LET allPoints == interpolateEdges(currentPolygon, 1)
               IN IF uploadStage = "admin"
                  THEN /\ adminPolygons' = Append(adminPolygons, newPolygon(allPoints, uploadStage))
                       /\ adminQuadTree' = insertEach(adminQuadTree, allPoints, Len(allPoints))
                       /\ UNCHANGED <<userPolygons, userQuadTree>>
                  ELSE /\ userPolygons' = Append(userPolygons, newPolygon(allPoints, uploadStage))
                       /\ userQuadTree' = insertEach(userQuadTree, allPoints, Len(allPoints))
                       /\ UNCHANGED <<adminPolygons, adminQuadTree>>
            /\ currentPolygon' = <<>>
            /\ effectPending' = TRUE
    /\ UNCHANGED <<uploadStage, image, overlap>>
    /\ UNCHANGED treeVars

\* handleUpload with the user upload switching the stage back to admin
handleUploadToggle(role) ==
    /\ ~effectPending
    /\ role = uploadStage
    /\ image # "null"
    /\ uploadStage' = IF role = "admin" THEN "user" ELSE "admin"
    /\ currentPolygon' = <<>>
    /\ effectPending' = TRUE
    /\ UNCHANGED <<adminQuadTree, userQuadTree, adminPolygons, userPolygons,
                   isDrawing, image, overlap>>
    /\ UNCHANGED treeVars

\* handleUpload(role): the button of the current stage only is rendered; without
\* a canvas, canvas.toDataURL throws before any state is set
handleUpload(role) ==
    /\ ~effectPending
    /\ role = uploadStage
    /\ image # "null"
    /\ uploadStage' = IF role = "admin" THEN "user" ELSE uploadStage
    /\ currentPolygon' = <<>>
    /\ effectPending' = TRUE
    /\ UNCHANGED <<adminQuadTree, userQuadTree, adminPolygons, userPolygons,
                   isDrawing, image, overlap>>
    /\ UNCHANGED treeVars

\* the effect, drawPolygons: returns at once without a canvas, else draws and
\* computes adminQuadTree.findCommonPoints(userQuadTree)
drawPolygons ==
    /\ effectPending
    /\ effectPending' = FALSE
    /\ IF image = "null"
       THEN overlap' = [overlap EXCEPT !.drawn = FALSE]
       ELSE overlap' = [drawn |-> TRUE,
                        receiver |-> adminQuadTree,
                        argument |-> userQuadTree,
                        commonPoints |-> findCommonPoints(adminQuadTree, userQuadTree, <<>>)]
    /\ UNCHANGED <<adminQuadTree, userQuadTree, adminPolygons, userPolygons,
                   currentPolygon, isDrawing, uploadStage, image>>
    /\ UNCHANGED treeVars

InitApp ==
    /\ treeA = NewQuadTree(quadTreeBounds, DefaultMaxItems, DefaultDepth)
    /\ treeB = NewQuadTree(quadTreeBounds, DefaultMaxItems, DefaultDepth)
    /\ logA = <<>>
    /\ logB = <<>>
    /\ last = Call("new", "")
    /\ AppMounted

NextApp ==
    \/ \E result \in {"data", "null"} : handleImageUpload(result)
    \/ handleStartPolygon
    \/ \E p \in Clicks : handleCanvasClick(p)
    \/ handleEndPolygon
    \/ \E role \in {"admin", "user"} : handleUpload(role)
    \/ drawPolygons

SpecApp == InitApp /\ [][NextApp]_vars

----------------------------------------------------------------------------
(* Vocabulary of the properties.                                           *)

RECURSIVE Nodes(_), Stored(_), StoredFrom(_, _), Height(_)

\* every node of the tree rooted at n
Nodes(n) == {n} \cup UNION { Nodes(n.children[i]) : i \in DOMAIN n.children }

\* every point held anywhere in the tree rooted at n, node by node
Stored(n) == n.points \o StoredFrom(n.children, 1)

StoredFrom(children, i) ==
    IF i > Len(children) THEN <<>>
    ELSE Stored(children[i]) \o StoredFrom(children, i + 1)

Max(S) == CHOOSE m \in S : \A k \in S : k <= m

\* number of nodes on the longest path from n down to a leaf
Height(n) == 1 + Max({0} \cup { Height(n.children[i]) : i \in DOMAIN n.children })

Range(seq) == { seq[i] : i \in DOMAIN seq }

Count(seq, e) == Cardinality({ i \in DOMAIN seq : seq[i] = e })

\* p lies in rectangle R, edges included
Within(p, R) == R.left <= p.x /\ p.x <= R.right /\ R.top <= p.y /\ p.y <= R.bottom

\* the points of the insert calls of a log, and of those that returned true
Offered(lg) == [i \in DOMAIN lg |-> lg[i].point]

Accepted(lg) == Offered(SelectSeq(lg, LAMBDA e : e.ret))

Trees == {treeA, treeB}

----------------------------------------------------------------------------
\* C1: queryRange(R) returns a point p if and only if p was successfully
\* inserted into the tree and p lies within R, edges included.
C1_RangeQueryCompleteness ==
    last.op = "queryRange" =>
        \A p \in Points :
            p \in Range(last.foundA)
                <=> (p \in Range(Accepted(logA)) /\ Within(p, last.range[1]))

\* C2: A.findCommonPoints(B) returns exactly the points inserted into A whose
\* coordinates equal those of some point inserted into B.
C2_OverlapCorrectness ==
    last.op = "findCommonPoints" =>
        Range(last.common) = Range(Accepted(logA)) \cap Range(Accepted(logB))

\* C3: insert of a point inside the root bounds returns true after any prior
\* sequence of inserts (a node with depth budget 0 stores whatever it is offered).
C3_ExhaustedDepthOverflow ==
    \A i \in DOMAIN logA :
        Within(logA[i].point, quadTreeBounds) => logA[i].ret

\* C4: insert on a root returns false exactly when the point lies outside the
\* root bounds (edges included), and a call that returns false changes no tree.
C4_OutOfBoundsRejection ==
    [][last'.op = "insert" =>
          /\ (~last'.ret) <=> ~Within(last'.point[1], quadTreeBounds)
          /\ (~last'.ret) => (treeA' = treeA /\ treeB' = treeB)]_vars

\* C5: every insert either stores the point once and returns true, or returns
\* false and leaves every node's points and children as they were.
C5_AtomicInsert ==
    [][last'.op = "insert" =>
          IF last'.ret
          THEN Len(Stored(treeA')) + Len(Stored(treeB'))
                   = Len(Stored(treeA)) + Len(Stored(treeB)) + 1
          ELSE treeA' = treeA /\ treeB' = treeB]_vars

\* C6: every point stored at a node lies within that node's bounds and within
\* the root bounds, edges included.
C6_Containment ==
    \A t \in Trees : \A n \in Nodes(t) : \A i \in DOMAIN n.points :
        Within(n.points[i], n.bounds) /\ Within(n.points[i], quadTreeBounds)

\* C6 witness: an out-of-bounds point was offered to treeA, and treeA holds
\* points both at its root and below it.
C6_Witness ==
    /\ \E i \in DOMAIN logA : ~Within(logA[i].point, quadTreeBounds)
    /\ Len(treeA.points) > 0
    /\ Len(Stored(treeA)) > Len(treeA.points)

\* C7: every node has zero or exactly four children; the four children are the
\* top-left, top-right, bottom-left and bottom-right quadrants of the parent,
\* split at the midpoint of each axis.
C7_Partition ==
    \A t \in Trees : \A n \in Nodes(t) :
        /\ Len(n.children) \in {0, 4}
        /\ Len(n.children) = 4 =>
             LET b == n.bounds
                 tl == n.children[1].bounds
                 tr == n.children[2].bounds
                 bl == n.children[3].bounds
                 br == n.children[4].bounds
             IN /\ tl.left = b.left /\ bl.left = b.left
                /\ tr.right = b.right /\ br.right = b.right
                /\ tl.top = b.top /\ tr.top = b.top
                /\ bl.bottom = b.bottom /\ br.bottom = b.bottom
                /\ 2 * tl.right = b.left + b.right
                /\ tr.left = tl.right /\ bl.right = tl.right /\ br.left = tl.right
                /\ 2 * tl.bottom = b.top + b.bottom
                /\ tr.bottom = tl.bottom /\ bl.top = tl.bottom /\ br.top = tl.bottom

\* C7 witness: a node below the root has been subdivided.
C7_Witness ==
    \E n \in Nodes(treeA) : n # treeA /\ Len(n.children) = 4

\* C8: no root-to-leaf path has more than d+1 nodes for a tree constructed with
\* depth d, each child's depth budget is its parent's minus one, and a node with
\* depth budget 0 has no children.
C8_DepthTermination ==
    \A t \in Trees :
        /\ Height(t) <= t.depth + 1
        /\ \A n \in Nodes(t) :
              /\ \A i \in DOMAIN n.children : n.children[i].depth = n.depth - 1
              /\ n.depth = 0 => Len(n.children) = 0

\* C8 witness: treeA has a path of d+1 nodes, and a node of depth budget 0 has
\* been offered a point lying in its bounds.
C8_Witness ==
    /\ Height(treeA) = treeA.depth + 1
    /\ last.op = "insert" /\ last.tree = "A"
    /\ \E n \in Nodes(treeA) : n.depth = 0 /\ Within(last.point[1], n.bounds)

C10_DuplicatesKept ==
    (treeA.maxItems = DefaultMaxItems /\ treeA.depth = DefaultDepth) =>
        /\ \A i \in DOMAIN logA :
              (\E j \in 1..(i - 1) : logA[j].ret /\ logA[j].point = logA[i].point)
                  => logA[i].ret
        /\ \A p \in Points : Count(Stored(treeA), p) = Count(Accepted(logA), p)
        /\ last.op = "queryRange" =>
              \A p \in Points :
                  (Within(p, last.range[1]) /\ Count(Stored(treeA), p) >= 2)
                      => Count(last.foundA, p) = Count(Stored(treeA), p)

\* every position of the tree rooted at n: the child indices from n down to a node
RECURSIVE Paths(_), NodeAt(_, _)

Paths(n) ==
    {<<>>} \cup UNION { { <<i>> \o q : q \in Paths(n.children[i]) } : i \in DOMAIN n.children }

NodeAt(n, path) ==
    IF path = <<>> THEN n ELSE NodeAt(n.children[Head(path)], Tail(path))

IsPrefix(s, t) == Len(s) <= Len(t) /\ \A i \in DOMAIN s : s[i] = t[i]

\* C13: insert on a node with an in-bounds point, fewer than maxItems points and
\* depth budget above 0 returns true, appends the point to the node's own list
\* and leaves the node's children as they are.
C13_DirectStore ==
    \A t \in Trees : \A n \in Nodes(t) : \A p \in Points :
        (Within(p, n.bounds) /\ Len(n.points) < n.maxItems /\ n.depth > 0) =>
            LET r == insert(n, p)
            IN /\ r.ret
               /\ r.node.points = Append(n.points, p)
               /\ r.node.children = n.children
               /\ r.node.bounds = n.bounds

\* C13 witness: the last insert was stored directly at a node below the root
\* that still had room.
C13_Witness ==
    /\ last.op = "insert" /\ last.tree = "A" /\ last.ret
    /\ \E n \in Nodes(treeA) :
          /\ n # treeA /\ n.depth > 0
          /\ Len(n.points) > 0 /\ Len(n.points) <= n.maxItems
          /\ n.points[Len(n.points)] = last.point[1]
          /\ Len(n.children) = 0

\* C14: a point stored in the subtree of a child lies in the bounds of no
\* earlier child (top-left, top-right, bottom-left, bottom-right order).
C14_BoundaryTieBreak ==
    \A t \in Trees : \A n \in Nodes(t) : \A i \in DOMAIN n.children :
        \A p \in Range(Stored(n.children[i])) :
            \A j \in 1..(i - 1) : ~Within(p, n.children[j].bounds)

\* C15: every point is stored as many times as inserts of it returned true,
\* so each successful insert added the point to exactly one node.
C15_SingleResidence ==
    /\ \A p \in Points : Count(Stored(treeA), p) = Count(Accepted(logA), p)
    /\ \A p \in Points : Count(Stored(treeB), p) = Count(Accepted(logB), p)
    /\ Len(Stored(treeA)) = Len(Accepted(logA))
    /\ Len(Stored(treeB)) = Len(Accepted(logB))

\* C15 witness: a point on the boundary shared by the four quadrants of the
\* root was delegated to the children and stored.
C15_Witness ==
    /\ last.op = "insert" /\ last.tree = "A" /\ last.ret
    /\ last.point[1] = Pt(300, 200)
    /\ Len(treeA.children) = 4
    /\ \A i \in 1..4 : Within(last.point[1], treeA.children[i].bounds)
    /\ \E i \in 1..4 : Pt(300, 200) \in Range(Stored(treeA.children[i]))

\* a step keeps the children of every subdivided node of tree t (t2 after the step)
KeepsChildren(t, t2) ==
    \A path \in Paths(t) :
        LET n == NodeAt(t, path)
        IN Len(n.children) > 0 =>
             /\ path \in Paths(t2)
             /\ LET m == NodeAt(t2, path)
                IN /\ Len(m.children) = Len(n.children)
                   /\ \A i \in DOMAIN n.children :
                         /\ m.children[i].bounds = n.children[i].bounds
                         /\ m.children[i].depth = n.children[i].depth
                         /\ IsPrefix(n.children[i].points, m.children[i].points)

\* C16: once a node has children, no insert replaces, re-creates, adds to or
\* removes from its four children or changes their bounds.
C16_SubdivideOnce ==
    [][KeepsChildren(treeA, treeA') /\ KeepsChildren(treeB, treeB')]_vars

\* C16 witness: the root of treeA was subdivided and at least two later inserts
\* were delegated to its children.
C16_Witness ==
    /\ Len(treeA.children) = 4
    /\ Len(Stored(treeA)) >= Len(treeA.points) + 2

\* C18: a node that has children has depth budget above 0 and holds exactly
\* maxItems points; a node holding more than maxItems points has depth budget 0.
C18_FullBeforeSplit ==
    \A t \in Trees : \A n \in Nodes(t) :
        /\ Len(n.children) > 0 => (n.depth > 0 /\ Len(n.points) = n.maxItems)
        /\ Len(n.points) > n.maxItems => n.depth = 0

\* C18 witness: in a tree with maxItems 2 the root has been subdivided and one
\* of its children holds a point.
C18_Witness ==
    /\ treeA.maxItems = 2
    /\ Len(treeA.children) = 4
    /\ \E i \in 1..4 : Len(treeA.children[i].points) > 0

----------------------------------------------------------------------------
(* The App component's claims, checked under SpecApp.                      *)

\* the trees of the polygon records of a list, in order
PolygonTrees(polygons) == [i \in DOMAIN polygons |-> polygons[i].quadTree]

\* the point sequences of the polygon records of a list, in order
PolygonPoints(polygons) == [i \in DOMAIN polygons |-> polygons[i].points]

\* this step finalized a polygon: a record was added to one of the lists
PolygonAdded ==
    Len(adminPolygons') + Len(userPolygons') > Len(adminPolygons) + Len(userPolygons)

\* this step ended a drawing session without creating a polygon
SessionEndedEmpty == isDrawing /\ ~isDrawing' /\ ~PolygonAdded

\* C11 (as stated): whenever an event can be handled, the overlap set was last
\* computed as adminQuadTree.findCommonPoints(userQuadTree) on the shared trees
\* as they are now, so with every finalized polygon's inserted points in them.
C11_OverlapRecomputed ==
    ~effectPending =>
        /\ overlap.receiver = adminQuadTree
        /\ overlap.argument = userQuadTree
        /\ overlap.commonPoints = findCommonPoints(adminQuadTree, userQuadTree, <<>>)

\* C12: a step that finalizes a polygon with role r appends one record of type r
\* to the list of r, whose own tree is a fresh tree with the record's points
\* inserted; the shared tree of r becomes itself with those points inserted; the
\* other role's shared tree and list, and the trees of the polygons finalized
\* before, are unchanged.
C12_RoleRouting ==
    [][PolygonAdded =>
        LET mine == IF uploadStage = "admin" THEN adminPolygons ELSE userPolygons
            mine2 == IF uploadStage = "admin" THEN adminPolygons' ELSE userPolygons'
            tree == IF uploadStage = "admin" THEN adminQuadTree ELSE userQuadTree
            tree2 == IF uploadStage = "admin" THEN adminQuadTree' ELSE userQuadTree'
            new == mine2[Len(mine2)]
        IN /\ Len(mine2) = Len(mine) + 1
           /\ new.type = uploadStage
           /\ new.points = interpolateEdges(currentPolygon, 1)
           /\ new.quadTree = insertEach(NewQuadTree(quadTreeBounds, DefaultMaxItems, DefaultDepth),
                                        new.points, Len(new.points))
           /\ tree2 = insertEach(tree, new.points, Len(new.points))
           /\ PolygonTrees(SubSeq(mine2, 1, Len(mine))) = PolygonTrees(mine)
           /\ IF uploadStage = "admin"
              THEN userQuadTree' = userQuadTree /\ userPolygons' = userPolygons
              ELSE adminQuadTree' = adminQuadTree /\ adminPolygons' = adminPolygons
      ]_vars

\* both roles have finalized a polygon and both shared trees hold points
C12_Witness ==
    /\ Len(adminPolygons) > 0
    /\ Len(userPolygons) > 0
    /\ Len(Stored(adminQuadTree)) > 0
    /\ Len(Stored(userQuadTree)) > 0

\* C17 (as stated): a step that finalizes a polygon starts from a session with at
\* least 3 distinct clicked vertices; a step that ends a session without
\* finalizing one changes no polygon list and no tree; no step changes the point
\* sequence of a record created before.
C17_PolygonCreation ==
    [][/\ PolygonAdded => Cardinality(Range(currentPolygon)) >= MinVertices
       /\ SessionEndedEmpty =>
            /\ adminPolygons' = adminPolygons
            /\ userPolygons' = userPolygons
            /\ adminQuadTree' = adminQuadTree
            /\ userQuadTree' = userQuadTree
       /\ PolygonPoints(SubSeq(adminPolygons', 1, Len(adminPolygons))) = PolygonPoints(adminPolygons)
       /\ PolygonPoints(SubSeq(userPolygons', 1, Len(userPolygons))) = PolygonPoints(userPolygons)
      ]_vars

\* C19: the stage starts as admin, changes only from admin to user, and while
\* it is user no step changes the admin shared tree or the admin polygon list.
C19_OneWayStage ==
    /\ uploadStage = "admin"
    /\ [][/\ uploadStage' # uploadStage => uploadStage = "admin" /\ uploadStage' = "user"
          /\ uploadStage = "user" =>
               /\ adminQuadTree' = adminQuadTree
               /\ adminPolygons' = adminPolygons
         ]_vars

\* the stage is user and a user polygon was finalized and drawn in it, next to
\* an admin polygon finalized before the stage changed
C19_Witness ==
    /\ uploadStage = "user"
    /\ Len(userPolygons) > 0
    /\ Len(adminPolygons) > 0
    /\ ~effectPending
    /\ overlap.drawn

====
